---- MODULE Spec2Model ----
(***************************************************************************)
(* Verification model of the operation pipeline of the LLM Excel           *)
(* processor: GenerateValidateStage -> Executor.execute -> the caller's    *)
(* apply_new_columns.  The engine itself (apps/api/app/engine) is          *)
(* described by the design documents of the repository; every definition   *)
(* below follows the place of those documents named in MODEL_MAP.json.     *)
(***************************************************************************)
EXTENDS Integers, Sequences, FiniteSets, TLC

\* ------------------------------------------------------------------ bounds
\* number of data rows of the loaded sheet
NRows == 2
\* longest operations array the generate step produces
MaxOps == 2

\* deepest nesting of a function call in a validated expression
MaxDepth == 2
\* longest column handed to an aggregate function on its own, and most
\* step records of a stored turn
MaxLen == 3

\* most streaming events of one stage instance
MaxDeltas == 2
\* fetchSSE requests one page makes
MaxRequests == 2
\* files chosen for upload on one page
MaxFiles == 3

\* ------------------------------------------------------- program constants
\* ProcessConfig.max_validation_retries
max_validation_retries == 2
\* how many failing rows the row-level error message spells out
MaxShownRowErrors == 2

\* ------------------------------------------------------------ cell values
\* A cell is a triple <<kind, n, d>>: a number n/d (d > 0, lowest terms), a
\* text with identity n, or the empty cell.
Blank == <<"blank", 0, 1>>

RECURSIVE Gcd(_, _)
Gcd(a, b) == IF b = 0 THEN a ELSE Gcd(b, a % b)

Abs(x) == IF x < 0 THEN -x ELSE x

\* the number n/d in lowest terms, d # 0
Num(n, d) ==
    LET g == Gcd(Abs(n), Abs(d))
        s == IF d < 0 THEN -1 ELSE 1
    IN  <<"num", (s * n) \div g, (s * d) \div g>>

Int2Num(n) == <<"num", n, 1>>

\* _is_valid_number(): a cell that takes part in numeric aggregation
\* (the second body counts an empty cell as the number 0)
_is_valid_number_blank_as_zero(v) == v[1] \in {"num", "blank"}
_is_valid_number(v) == v[1] = "num"

\* _is_blank()
_is_blank(v) == v[1] = "blank"

\* ------------------------------------------------------------ evaluation
\* Result of evaluating an expression, an operation or a row.
Ok(v) == [ok |-> TRUE, v |-> v, e |-> "none"]
Err(kind) == [ok |-> FALSE, v |-> Blank, e |-> kind]

\* + - * / on two numbers; anything that is not a number is a type error,
\* a zero divisor is a division error
Arith(op, a, b) ==
    IF ~(_is_valid_number(a) /\ _is_valid_number(b)) THEN Err("type_mismatch")
    ELSE CASE op = "+" -> Ok(Num(a[2] * b[3] + b[2] * a[3], a[3] * b[3]))
           [] op = "-" -> Ok(Num(a[2] * b[3] - b[2] * a[3], a[3] * b[3]))
           [] op = "*" -> Ok(Num(a[2] * b[2], a[3] * b[3]))
           [] op = "/" -> IF b[2] = 0 THEN Err("division_by_zero")
                          ELSE Ok(Num(a[2] * b[3], a[3] * b[2]))

\* {"var": name}: a variable defined by an earlier operation; an undefined
\* name is an error
\* (the second body substitutes 0 for a variable that is not defined)
lookup_variable_default(vars, name) ==
    IF name \in DOMAIN vars THEN Ok(vars[name]) ELSE Ok(Int2Num(0))
lookup_variable(vars, name) ==
    IF name \in DOMAIN vars THEN Ok(vars[name]) ELSE Err("missing_variable")

\* FormulaEvaluator.evaluate(expr): row is the current row context (column
\* name -> cell), vars the variable context.
\*   {"value": v}  {"col": c}  {"var": x}  {"op": o, "left": l, "right": r}
\*   {"func": f, "args": [...]}
RECURSIVE evaluate(_, _, _)
evaluate(expr, row, vars) ==
    CASE expr.k = "value" -> Ok(expr.v)
      [] expr.k = "col" ->
            IF expr.col \in DOMAIN row THEN Ok(row[expr.col])
            ELSE Err("missing_column")
      [] expr.k = "var" -> lookup_variable(vars, expr.var)
      [] expr.k = "op" ->
            LET l == evaluate(expr.left, row, vars)
                r == evaluate(expr.right, row, vars)
            IN  IF ~l.ok THEN l
                ELSE IF ~r.ok THEN r
                ELSE Arith(expr.op, l.v, r.v)
      [] expr.k = "func" ->
            LET a == evaluate(expr.args[1], row, vars)
            IN  CASE expr.func = "ISBLANK" ->
                        IF a.ok THEN Ok(Int2Num(IF _is_blank(a.v) THEN 1 ELSE 0))
                        ELSE a
                  [] expr.func = "ABS" ->
                        IF ~a.ok THEN a
                        ELSE IF ~_is_valid_number(a.v) THEN Err("type_mismatch")
                        ELSE Ok(Num(Abs(a.v[2]), a.v[3]))
                  [] expr.func = "IF" ->
                        \* every argument is evaluated before the dispatch
                        LET t == evaluate(expr.args[2], row, vars)
                            f == evaluate(expr.args[3], row, vars)
                        IN  IF ~a.ok THEN a
                            ELSE IF ~t.ok THEN t
                            ELSE IF ~f.ok THEN f
                            ELSE IF ~_is_valid_number(a.v) THEN Err("type_mismatch")
                            ELSE IF a.v[2] # 0 THEN t ELSE f
                  [] OTHER -> Err("unknown_function")
      [] OTHER -> Err("bad_expression")

\* ------------------------------------------------------- expression objects
Val(n) == [k |-> "value", v |-> Int2Num(n)]
ColRef(c) == [k |-> "col", col |-> c]
VarRef(x) == [k |-> "var", var |-> x]
BinOp(o, l, r) == [k |-> "op", op |-> o, left |-> l, right |-> r]
Call(f, a) == [k |-> "func", func |-> f, args |-> a]
NoExpr == [k |-> "none"]

\* a field the JSON object does not carry
NoField == ""

\* function names used anywhere in an expression tree
\* (the second body looks at the outermost call only)
RECURSIVE FuncsOf(_)
FuncsOf_top_level(expr) ==
    IF expr.k = "func" THEN {expr.func} ELSE {}
FuncsOf(expr) ==
    CASE expr.k = "op" -> FuncsOf(expr.left) \cup FuncsOf(expr.right)
      [] expr.k = "func" ->
            {expr.func} \cup UNION {FuncsOf(expr.args[i]) : i \in DOMAIN expr.args}
      [] OTHER -> {}

\* current-row column names used anywhere in an expression tree
RECURSIVE ColsOf(_)
ColsOf(expr) ==
    CASE expr.k = "col" -> {expr.col}
      [] expr.k = "op" -> ColsOf(expr.left) \cup ColsOf(expr.right)
      [] expr.k = "func" -> UNION {ColsOf(expr.args[i]) : i \in DOMAIN expr.args}
      [] OTHER -> {}

\* variable names used anywhere in an expression tree
RECURSIVE VarsOf(_)
VarsOf(expr) ==
    CASE expr.k = "var" -> {expr.var}
      [] expr.k = "op" -> VarsOf(expr.left) \cup VarsOf(expr.right)
      [] expr.k = "func" -> UNION {VarsOf(expr.args[i]) : i \in DOMAIN expr.args}
      [] OTHER -> {}

\* ------------------------------------------------------------- whitelists
VALID_TYPES ==
    {"aggregate", "add_column", "update_column", "compute", "filter", "sort",
     "group_by", "take", "create_sheet"}

AGGREGATE_FUNCTIONS ==
    {"SUM", "COUNT", "COUNTA", "AVERAGE", "MIN", "MAX", "MEDIAN",
     "SUMIF", "COUNTIF", "AVERAGEIF"}

ROW_FUNCTIONS ==
    {"IF", "AND", "OR", "NOT", "ISBLANK", "ISNA", "ISNUMBER", "ISERROR",
     "VLOOKUP", "COUNTIFS", "IFERROR", "ROUND", "ABS",
     "LEFT", "RIGHT", "MID", "LEN", "TRIM", "UPPER", "LOWER", "PROPER",
     "CONCAT", "TEXT", "VALUE", "SUBSTITUTE", "FIND", "SEARCH"}

SCALAR_FUNCTIONS == {"ROUND", "ABS", "MAX", "MIN"}

\* ------------------------------------------------------------- operations
\* One JSON operation object; a field the object lacks is NoField / NoExpr.
Operation(type, function, column, name, as, expr) ==
    [type |-> type, function |-> function, file_id |-> "f1", table |-> "orders",
     column |-> column, name |-> name, as |-> as, expr |-> expr]

\* The operation objects the generate step can emit.  1..7 are well formed;
\* 8 has an unknown type, 9 lacks the required field "as", 10 calls an
\* aggregate function inside a row formula, 11 reads a column the sheet
\* does not have: the column that 5 adds.
OperationTable ==
    << Operation("aggregate", "SUM", "amount", NoField, "total", NoExpr),
       Operation("aggregate", "AVERAGE", "amount", NoField, "avg", NoExpr),
       Operation("compute", NoField, NoField, NoField, "r",
                 BinOp("/", VarRef("total"), VarRef("avg"))),
       Operation("compute", NoField, NoField, NoField, "total",
                 BinOp("*", VarRef("avg"), Val(2))),
       Operation("add_column", NoField, NoField, "unit", NoField,
                 BinOp("/", ColRef("amount"), ColRef("qty"))),
       Operation("add_column", NoField, NoField, "qty", NoField,
                 BinOp("*", ColRef("amount"), Val(2))),
       Operation("update_column", NoField, "amount", NoField, NoField,
                 Call("IF", << Call("ISBLANK", << ColRef("amount") >>),
                               VarRef("avg"), ColRef("amount") >>)),
       Operation("pivot", NoField, NoField, NoField, NoField, NoExpr),
       Operation("aggregate", "SUM", "amount", NoField, NoField, NoExpr),
       Operation("add_column", NoField, NoField, "bad", NoField,
                 Call("SUM", << ColRef("amount") >>)),
       Operation("aggregate", "SUM", "unit", NoField, "g", NoExpr) >>

OpIds == 1 .. Len(OperationTable)

\* sequences over S of length 1 .. n
RECURSIVE SeqsUpTo(_, _)
SeqsUpTo(S, n) ==
    IF n = 0 THEN {}
    ELSE LET shorter == SeqsUpTo(S, n - 1)
         IN  {<<x>> : x \in S} \cup shorter
             \cup {Append(s, x) : s \in shorter, x \in S}

\* the operations arrays the generate step can return (as ids into
\* OperationTable)
Documents == SeqsUpTo(OpIds, MaxOps)

\* --------------------------------------------------------------- registry
FileIds == {"f1"}
SheetNames == {"orders"}
AmountCells == {Int2Num(3), Blank}
QtyCells == {Int2Num(0), Int2Num(2)}

\* FileCollection contents after load: file-id, sheet -> column -> values
LoadedTables ==
    { [key \in FileIds \X SheetNames |-> [amount |-> a, qty |-> q]] :
        a \in [1 .. NRows -> AmountCells], q \in [1 .. NRows -> QtyCells] }

\* Table.get_columns()
get_columns(tbls, f, s) == DOMAIN tbls[<<f, s>>]

\* Table.get_column(name)
get_column(tbls, f, s, c) == tbls[<<f, s>>][c]

\* Table.row_count()
row_count(tbls, f, s) ==
    LET t == tbls[<<f, s>>] IN Len(t[CHOOSE c \in DOMAIN t : TRUE])

\* FileCollection.get_table exists for this file-id and sheet name
has_table(tbls, f, s) == <<f, s>> \in DOMAIN tbls

\* ------------------------------------------------------------ small maps
EmptyMap == [x \in {} |-> Blank]
Put(m, key, v) == [x \in DOMAIN m \cup {key} |-> IF x = key THEN v ELSE m[x]]

\* ---------------------------------------------------- OperationParser.parse
\* the fields an operation of this type must carry
RequiredFields(op) ==
    CASE op.type = "aggregate" ->
            {"function", "table", "as"}
            \cup (IF op.function # "COUNTIF" THEN {"column"} ELSE {})
      [] op.type = "add_column" -> {"table", "name", "expr"}
      [] op.type = "update_column" -> {"table", "column", "expr"}
      [] op.type = "compute" -> {"expr", "as"}
      [] OTHER -> {"table"}

FieldAbsent(op, f) == IF f = "expr" THEN op.expr = NoExpr ELSE op[f] = NoField

\* the function whitelist of the context an operation's expression is in
WhitelistOf(op) ==
    CASE op.type \in {"add_column", "update_column"} -> ROW_FUNCTIONS
      [] op.type = "compute" -> SCALAR_FUNCTIONS
      [] OTHER -> {}

\* the columns of the target sheet an operation names
ReferencedColumns(op) ==
    (IF op.type \in {"aggregate", "update_column"} /\ op.column # NoField
     THEN {op.column} ELSE {})
    \cup (IF op.type \in {"add_column", "update_column"}
          THEN ColsOf(op.expr) ELSE {})

\* violations of one operation object against the loaded structure, each a
\* pair <<kind, what it is about>>
ValidateOperation(op, tbls) ==
    IF op.type \notin VALID_TYPES THEN {<<"unknown_type", op.type>>}
    ELSE
      LET cols == IF has_table(tbls, op.file_id, op.table)
                  THEN get_columns(tbls, op.file_id, op.table) ELSE {}
      IN  {<<"missing_field", f>> : f \in {g \in RequiredFields(op) :
                                              FieldAbsent(op, g)}}
          \cup (IF op.type = "aggregate" /\ op.function # NoField
                   /\ op.function \notin AGGREGATE_FUNCTIONS
                THEN {<<"unknown_function", op.function>>} ELSE {})
          \cup {<<"unknown_function", f>> : f \in FuncsOf(op.expr) \ WhitelistOf(op)}
          \cup (IF op.type # "compute" /\ op.table # NoField
                   /\ ~has_table(tbls, op.file_id, op.table)
                THEN {<<"unknown_table", op.table>>} ELSE {})
          \cup (IF has_table(tbls, op.file_id, op.table)
                THEN {<<"unknown_column", c>> : c \in ReferencedColumns(op) \ cols}
                ELSE {})

\* OperationParser.parse(): every violation of the document, as
\* <<operation index, kind, what it is about>>
\* (the second body reports the first violation it meets and stops)
parse_first_only(doc, tbls) ==
    LET all == UNION { { <<i, m[1], m[2]>> :
                           m \in ValidateOperation(OperationTable[doc[i]], tbls) } :
                       i \in DOMAIN doc }
    IN  IF all = {} THEN {}
        ELSE {CHOOSE x \in all : \A y \in all : x[1] <= y[1]}
parse(doc, tbls) ==
    UNION { { <<i, m[1], m[2]>> :
                m \in ValidateOperation(OperationTable[doc[i]], tbls) } :
            i \in DOMAIN doc }

\* ------------------------------------------------------ aggregate functions
RECURSIVE SumValid(_)
SumValid(col) ==
    IF col = <<>> THEN Int2Num(0)
    ELSE IF _is_valid_number(Head(col))
         THEN Arith("+", Head(col), SumValid(Tail(col))).v
         ELSE SumValid(Tail(col))

CountValid(col) == Cardinality({i \in DOMAIN col : _is_valid_number(col[i])})

\* functions.py: the aggregate function named fn over one whole column
aggregate_function(fn, col) ==
    CASE fn = "SUM" -> Ok(SumValid(col))
      [] fn = "COUNT" -> Ok(Int2Num(CountValid(col)))
      [] fn = "AVERAGE" -> Arith("/", SumValid(col), Int2Num(CountValid(col)))
      [] OTHER -> Err("unknown_function")

\* ------------------------------------------------------------ the Executor
\* OperationResult of one handler
Success(value, values) ==
    [ok |-> TRUE, kind |-> "none", cause |-> "none", value |-> value,
     values |-> values, rows |-> {}, total |-> 0]
Failure(kind) ==
    [ok |-> FALSE, kind |-> kind, cause |-> kind, value |-> Blank,
     values |-> <<>>, rows |-> {}, total |-> 0]

\* "部分行计算失败: 行 5: xxx; 行 12: yyy (共 10 个错误)": the first failing
\* rows are spelled out, the total counts all of them
RowFailure(failing, cause) ==
    [ok |-> FALSE, kind |-> "rows_failed", cause |-> cause, value |-> Blank,
     values |-> <<>>,
     rows |-> {r \in failing :
                 Cardinality({q \in failing : q < r}) < MaxShownRowErrors},
     total |-> Cardinality(failing)]

\* Executor._execute_aggregate
\* (the second body stores the result over a variable of the same name)
_execute_aggregate_overwrite(op, tbls, vars) ==
    IF op.as = NoField \/ op.function = NoField THEN Failure("missing_field")
    ELSE IF ~has_table(tbls, op.file_id, op.table) THEN Failure("missing_table")
    ELSE IF op.column \notin get_columns(tbls, op.file_id, op.table)
         THEN Failure("missing_column")
    ELSE LET r == aggregate_function(op.function,
                     get_column(tbls, op.file_id, op.table, op.column))
         IN  IF ~r.ok THEN Failure(r.e) ELSE Success(r.v, <<>>)
_execute_aggregate(op, tbls, vars) ==
    IF op.as = NoField \/ op.function = NoField THEN Failure("missing_field")
    ELSE IF ~has_table(tbls, op.file_id, op.table) THEN Failure("missing_table")
    ELSE IF op.column \notin get_columns(tbls, op.file_id, op.table)
         THEN Failure("missing_column")
    ELSE LET r == aggregate_function(op.function,
                     get_column(tbls, op.file_id, op.table, op.column))
         IN  IF ~r.ok THEN Failure(r.e)
             ELSE IF op.as \in DOMAIN vars THEN Failure("duplicate_variable")
             ELSE Success(r.v, <<>>)

\* Executor._execute_compute: no row context, only the variable context
_execute_compute(op, vars) ==
    IF op.as = NoField \/ op.expr = NoExpr THEN Failure("missing_field")
    ELSE LET r == evaluate(op.expr, EmptyMap, vars)
         IN  IF ~r.ok THEN Failure(r.e)
             ELSE IF op.as \in DOMAIN vars THEN Failure("duplicate_variable")
             ELSE Success(r.v, <<>>)

\* the check a row-level handler makes before its row loop
\* (the second body lets add_column write over a column the sheet has)
row_precheck_overwrite(op, tbls) ==
    IF op.expr = NoExpr THEN "missing_field"
    ELSE IF ~has_table(tbls, op.file_id, op.table) THEN "missing_table"
    ELSE IF op.type = "update_column"
            /\ op.column \notin get_columns(tbls, op.file_id, op.table)
         THEN "missing_column"
    ELSE "none"
row_precheck(op, tbls) ==
    IF op.expr = NoExpr THEN "missing_field"
    ELSE IF ~has_table(tbls, op.file_id, op.table) THEN "missing_table"
    ELSE IF op.type = "add_column"
            /\ op.name \in get_columns(tbls, op.file_id, op.table)
         THEN "column_exists"
    ELSE IF op.type = "update_column"
            /\ op.column \notin get_columns(tbls, op.file_id, op.table)
         THEN "missing_column"
    ELSE "none"

\* the row context of data row r, from the column data fetched before the loop
row_context(tbls, f, s, r) ==
    [c \in get_columns(tbls, f, s) |-> get_column(tbls, f, s, c)[r]]

\* Executor._execute_add_column / _execute_update_column after the row loop:
\* rowvals maps every row index to the result of evaluating that row.
\* (the second body keeps the rows that succeeded and blanks the others)
_execute_row_operation_partial(op, tbls, rowvals) ==
    IF row_precheck(op, tbls) # "none" THEN Failure(row_precheck(op, tbls))
    ELSE Success(Blank, [r \in DOMAIN rowvals |-> rowvals[r].v])
_execute_row_operation(op, tbls, rowvals) ==
    IF row_precheck(op, tbls) # "none" THEN Failure(row_precheck(op, tbls))
    ELSE LET failing == {r \in DOMAIN rowvals : ~rowvals[r].ok}
         IN  IF failing # {}
             THEN RowFailure(failing,
                    rowvals[CHOOSE r \in failing : \A q \in failing : r <= q].e)
             ELSE Success(Blank, [r \in DOMAIN rowvals |-> rowvals[r].v])

\* Executor.execute, dispatch on the operation type
execute_operation(op, tbls, vars, rowvals) ==
    CASE op.type = "aggregate" -> _execute_aggregate(op, tbls, vars)
      [] op.type = "compute" -> _execute_compute(op, vars)
      [] op.type \in {"add_column", "update_column"} ->
            _execute_row_operation(op, tbls, rowvals)
      [] OTHER -> Failure("unknown_type")

IsRowOperation(op) == op.type \in {"add_column", "update_column"}

\* what execute() collects from one OperationResult
\* (the second body discards the collected variables when an operation fails)
variables_after_rollback(vars, op, res) ==
    IF res.ok
    THEN (IF op.type \in {"aggregate", "compute"} THEN Put(vars, op.as, res.value)
          ELSE vars)
    ELSE EmptyMap
variables_after(vars, op, res) ==
    IF res.ok /\ op.type \in {"aggregate", "compute"}
    THEN Put(vars, op.as, res.value) ELSE vars

new_columns_after(nc, op, res) ==
    IF res.ok /\ op.type = "add_column"
    THEN Put(nc, <<op.file_id, op.table, op.name>>, res.values) ELSE nc

updated_columns_after(uc, op, res) ==
    IF res.ok /\ op.type = "update_column"
    THEN Put(uc, <<op.file_id, op.table, op.column>>, res.values) ELSE uc

errors_after(errs, i, res) ==
    IF res.ok THEN errs
    ELSE Append(errs, [op |-> i, kind |-> res.kind, cause |-> res.cause,
                       rows |-> res.rows, total |-> res.total])

\* Table.add_column(name, values) / overwrite of an existing column
add_column(tbls, f, s, c, values) ==
    [key \in DOMAIN tbls |->
        IF key = <<f, s>> THEN Put(tbls[key], c, values) ELSE tbls[key]]

\* the registry after one operation of the Executor: the Executor does not
\* modify a Table
\* (the second body is the handler calling table.add_column itself)
tables_after_direct(tbls, op, res) ==
    IF res.ok /\ op.type = "add_column"
    THEN add_column(tbls, op.file_id, op.table, op.name, res.values) ELSE tbls
tables_after(tbls, op, res) == tbls

\* the for loop of execute(): operation i is started when it has not run yet
\* and every operation before it has returned
\* (the second body starts it as soon as the one before it has started)
CanStartOperation_no_wait(results, i) ==
    /\ results[i] = "pending"
    /\ \A j \in 1 .. i - 1 : results[j] # "pending"
CanStartOperation(results, i) ==
    /\ results[i] = "pending"
    /\ \A j \in 1 .. i - 1 : results[j] \in {"ok", "failed"}

\* the control state after an operation has returned: the loop goes on
\* whatever the result
\* (the second body ends the run at the first failing operation)
state_after_operation_fail_stop(res) == IF res.ok THEN "running" ELSE "failed"
state_after_operation(res) == "running"

\* execute() returns after the loop has gone through the whole list
\* (the second body returns at the first failing operation)
loop_finished_fail_fast(results) ==
    \/ \A i \in DOMAIN results : results[i] \in {"ok", "failed"}
    \/ \E i \in DOMAIN results : results[i] = "failed"
loop_finished(results) ==
    \A i \in DOMAIN results : results[i] \in {"ok", "failed"}

\* FileCollection.apply_new_columns(new_columns)
RECURSIVE apply_columns(_, _, _)
apply_columns(tbls, cols, keys) ==
    IF keys = {} THEN tbls
    ELSE LET key == CHOOSE x \in keys : TRUE
         IN  apply_columns(add_column(tbls, key[1], key[2], key[3], cols[key]),
                           cols, keys \ {key})
apply_new_columns(tbls, cols) == apply_columns(tbls, cols, DOMAIN cols)

\* ----------------------------------------------------------------- state
VARIABLES
    stage,              \* generate | validate | execute | apply | complete
    retries,            \* validation retries used so far
    operations,         \* the generated operations array (ids)
    tables,             \* the FileCollection
    state,              \* Executor control state: idle | running | done
    cur,                \* index of the operation started last
    operation_results,  \* per operation: pending | running | ok | failed
    row_values,         \* row loop of the running operation: row -> result
    variables,          \* ExecutionResult.variables
    new_columns,        \* ExecutionResult.new_columns
    updated_columns,    \* ExecutionResult.updated_columns
    errors              \* ExecutionResult.errors

\* a function of the engine applied on its own to one input
VARIABLES
    b_kind,             \* off | validate | aggregate
    b_type,             \* validate: the operation type (the context)
    b_func,             \* the function name under test
    b_depth,            \* validate: how deep the call is nested
    b_wrap,             \* validate: what the call is nested in
    b_column,           \* aggregate: the column
    b_errors,           \* validate: the violations reported
    b_result,           \* aggregate: the value returned
    b_done              \* the function has been applied

benchVars == <<b_kind, b_type, b_func, b_depth, b_wrap, b_column, b_errors,
               b_result, b_done>>

\* the /chat stream and the chat client (useChat) of one request
VARIABLES
    srv_state,          \* start | idle | running | streaming | failed | closed
    srv_cur,            \* index in ProtocolSteps of the step started last
    srv_next,           \* index in ProtocolSteps of the step to start next
    srv_stage_id,       \* stage instances started so far
    srv_retries,        \* regenerations after a failed validation
    srv_deltas,         \* streaming events of the current stage instance
    event,              \* the event sent and handled last
    msg_steps,          \* assistant message: steps
    msg_status,         \* assistant message: status
    msg_error           \* assistant message: error

chatVars == <<srv_state, srv_cur, srv_next, srv_stage_id, srv_retries,
              srv_deltas, event, msg_steps, msg_status, msg_error>>

\* a thread's history as the thread page loads it (one turn)
VARIABLES
    h_status,           \* turn.status: pending | processing | completed | failed
    h_steps,            \* turn.steps as stored
    h_message,          \* the assistant message built from the turn
    h_done              \* mutate.onSuccess has run

historyVars == <<h_status, h_steps, h_message, h_done>>

\* the thread page: useChat, its fetchSSE requests and the route
VARIABLES
    messages,           \* useChat: the message list
    isProcessing,       \* useChat: isProcessing
    abortRef,           \* useChat: the request abortRef aborts (0: none)
    requests,           \* fetchSSE: per request, where trigger() stands
    threadId,           \* the route parameter id (0: none)
    rendered,           \* the threadId the effect has run for last
    initThreadId,       \* initThreadId.current (0: empty)
    mutating            \* the thread getThreadDetail is loading (0: none)

pageVars == <<messages, isProcessing, abortRef, requests, threadId, rendered,
              initThreadId, mutating>>

\* the thread page: the files chosen for upload
VARIABLES
    fileItems,          \* the list of file items
    uploads             \* per file: the index and state of its upload

uploadVars == <<fileItems, uploads>>

\* the variables of the web client outside the stream of one request
extraVars == <<historyVars, pageVars, uploadVars>>

pipelineVars == <<stage, retries, operations, tables, state, cur,
                  operation_results, row_values, variables, new_columns,
                  updated_columns, errors>>

\* the variables the pipeline leaves alone
nonPipelineVars == <<benchVars, chatVars, extraVars>>

\* the variables the functions applied on their own leave alone
nonBenchVars == <<pipelineVars, chatVars, extraVars>>

\* the variables the stream of one request leaves alone
nonChatVars == <<pipelineVars, benchVars, extraVars>>

\* the variables the loading of a history, the page's requests and the
\* uploads leave alone
nonHistoryVars == <<pipelineVars, benchVars, chatVars, pageVars, uploadVars>>
nonPageVars == <<pipelineVars, benchVars, chatVars, historyVars, uploadVars>>
nonUploadVars == <<pipelineVars, benchVars, chatVars, historyVars, pageVars>>

vars == <<pipelineVars, nonPipelineVars>>

execVars == <<state, cur, operation_results, row_values, variables,
              new_columns, updated_columns, errors>>

OpAt(i) == OperationTable[operations[i]]

\* the violations OperationParser.parse() reports for the current array
validation_errors == parse(operations, tables)

\* ---------------------------------------------------- the chat client
\* use-chat.ts: the step names the client knows
STEP_NAMES == {"load", "analyze", "generate", "execute"}

isStepName(step) == step \in STEP_NAMES

\* one SSE event as onMessage(event, data) gets it: the event name, the
\* fields of data, and the time at which it is handled
Event(name, step, status, stage_id, delta, output, error, at) ==
    [event |-> name, step |-> step, status |-> status, stage_id |-> stage_id,
     delta |-> delta, output |-> output, error |-> error, at |-> at]

NoEvent == Event("none", "", "", 0, "", "", "", 0)

\* a step record; a field the record does not carry is "" / <<>> / 0
StepRecord(step, status, started_at, completed_at, streamContent, output, error) ==
    [step |-> step, status |-> status, started_at |-> started_at,
     completed_at |-> completed_at, streamContent |-> streamContent,
     output |-> output, error |-> error]

\* index of the last record of this step, 0 when there is none
\* (the second body finds the first record of the step)
existingStepIndex_first(steps, step) ==
    LET idx == {i \in DOMAIN steps : steps[i].step = step}
    IN  IF idx = {} THEN 0 ELSE CHOOSE i \in idx : \A j \in idx : i <= j
existingStepIndex(steps, step) ==
    LET idx == {i \in DOMAIN steps : steps[i].step = step}
    IN  IF idx = {} THEN 0 ELSE CHOOSE i \in idx : \A j \in idx : i >= j

\* case "running": a new record is pushed
\* (the second body starts the last record of the step again when there is one)
onRunning_reuse(steps, ev) ==
    LET i == existingStepIndex(steps, ev.step)
        newStep == StepRecord(ev.step, "running", ev.at, 0, <<>>, "", "")
    IN  IF i > 0 THEN [steps EXCEPT ![i] = newStep] ELSE Append(steps, newStep)
onRunning(steps, ev) ==
    Append(steps, StepRecord(ev.step, "running", ev.at, 0, <<>>, "", ""))

\* case "streaming": the last record of the step becomes streaming and its
\* content grows by delta
onStreaming(steps, ev) ==
    LET i == existingStepIndex(steps, ev.step)
    IN  IF i > 0
        THEN [steps EXCEPT ![i] =
                [@ EXCEPT !.status = "streaming",
                          !.streamContent = Append(@, ev.delta)]]
        ELSE steps

\* case "done": the last record of the step is replaced by a done record
onDone(steps, ev) ==
    LET i == existingStepIndex(steps, ev.step)
    IN  IF i > 0
        THEN [steps EXCEPT ![i] =
                StepRecord(ev.step, "done", steps[i].started_at, ev.at, <<>>,
                           ev.output, "")]
        ELSE steps

\* case "error": the last record of the step is replaced by an error record
onError(steps, ev) ==
    LET i == existingStepIndex(steps, ev.step)
    IN  IF i > 0
        THEN [steps EXCEPT ![i] =
                StepRecord(ev.step, "error", steps[i].started_at, ev.at, <<>>,
                           "", IF ev.error = "" THEN "UNKNOWN" ELSE ev.error)]
        ELSE steps

\* useChat.sendMessage.onMessage on the last (assistant) message
onMessage(msg, ev) ==
    IF ev.event = "session" THEN msg
    ELSE IF ev.event = "error"
         THEN [msg EXCEPT !.status = "error", !.error = ev.error]
    ELSE IF ev.step = "complete" /\ ev.status = "done"
         THEN [msg EXCEPT !.status = "done"]
    ELSE IF ~isStepName(ev.step) THEN msg
    ELSE LET found == existingStepIndex(msg.steps, ev.step) > 0
         IN  CASE ev.status = "running" ->
                    [msg EXCEPT !.status = "streaming",
                                !.steps = onRunning(@, ev)]
               [] ev.status = "streaming" ->
                    [msg EXCEPT !.status = "streaming",
                                !.steps = onStreaming(@, ev)]
               [] ev.status = "done" ->
                    [msg EXCEPT !.status = "streaming",
                                !.steps = onDone(@, ev)]
               [] ev.status = "error" ->
                    [msg EXCEPT !.status = IF found THEN "error" ELSE "streaming",
                                !.error = IF found THEN ev.error ELSE @,
                                !.steps = onError(@, ev)]
               [] OTHER -> [msg EXCEPT !.status = "streaming"]

\* useChat.sendMessage.onSuccess: the stream has ended normally; the status
\* becomes done unless it is error
onSuccess(status) == IF status # "error" THEN "done" ELSE status

\* the assistant message as sendMessage creates it
assistantMessage == [steps |-> <<>>, status |-> "pending", error |-> ""]

\* no request is under way
ChatOff ==
    /\ srv_state = "off"
    /\ srv_cur = 0
    /\ srv_next = 0
    /\ srv_stage_id = 0
    /\ srv_retries = 0
    /\ srv_deltas = 0
    /\ event = NoEvent
    /\ msg_steps = <<>>
    /\ msg_status = "pending"
    /\ msg_error = ""

\* no function is under test
BenchOff ==
    /\ b_kind = "off"
    /\ b_type = NoField
    /\ b_func = NoField
    /\ b_depth = 0
    /\ b_wrap = NoField
    /\ b_column = <<>>
    /\ b_errors = {}
    /\ b_result = Ok(Blank)
    /\ b_done = FALSE

\* no history is being loaded
HistoryOff ==
    /\ h_status = "pending"
    /\ h_steps = <<>>
    /\ h_message = [status |-> "pending", steps |-> <<>>, error |-> ""]
    /\ h_done = FALSE

\* the thread page is not in use
PageOff ==
    /\ messages = <<>>
    /\ isProcessing = FALSE
    /\ abortRef = 0
    /\ requests = <<>>
    /\ threadId = 0
    /\ rendered = 0
    /\ initThreadId = 0
    /\ mutating = 0

\* no file is chosen
UploadOff ==
    /\ fileItems = <<>>
    /\ uploads = <<>>

ExtraOff == HistoryOff /\ PageOff /\ UploadOff

\* no operation list is being processed
PipelineOff ==
    /\ stage = "generate"
    /\ retries = 0
    /\ operations = <<>>
    /\ tables = CHOOSE t \in LoadedTables : TRUE
    /\ state = "idle"
    /\ cur = 0
    /\ operation_results = <<>>
    /\ row_values = EmptyMap
    /\ variables = EmptyMap
    /\ new_columns = EmptyMap
    /\ updated_columns = EmptyMap
    /\ errors = <<>>

Init ==
    /\ stage = "generate"
    /\ retries = 0
    /\ operations = <<>>
    /\ tables \in LoadedTables
    /\ state = "idle"
    /\ cur = 0
    /\ operation_results = <<>>
    /\ row_values = EmptyMap
    /\ variables = EmptyMap
    /\ new_columns = EmptyMap
    /\ updated_columns = EmptyMap
    /\ errors = <<>>
    /\ BenchOff
    /\ ChatOff
    /\ ExtraOff

\* GenerateValidateStage: the LLM generates an operations array
Generate ==
    /\ stage = "generate"
    /\ \E doc \in Documents : operations' = doc
    /\ stage' = "validate"
    /\ UNCHANGED <<retries, tables, execVars>>
    /\ UNCHANGED nonPipelineVars

\* GenerateValidateStage: a failed validation is retried while fewer than
\* max_validation_retries retries have been made
\* (the second body retries whenever validation fails)
CanRetry_always(r) == TRUE
CanRetry(r) == r < max_validation_retries

\* GenerateValidateStage: validation failed and retries are left -> retry
ValidateRetry ==
    /\ stage = "validate"
    /\ validation_errors # {}
    /\ CanRetry(retries)
    /\ retries' = retries + 1
    /\ stage' = "generate"
    /\ operations' = <<>>
    /\ UNCHANGED <<tables, execVars>>
    /\ UNCHANGED nonPipelineVars

\* GenerateValidateStage: validation passed, or the retry limit is exceeded
\* -> continue with the execute step
ValidateContinue ==
    /\ stage = "validate"
    /\ validation_errors = {} \/ ~CanRetry(retries)
    /\ stage' = "execute"
    /\ operation_results' = [i \in DOMAIN operations |-> "pending"]
    /\ UNCHANGED <<retries, operations, tables, state, cur, row_values,
                   variables, new_columns, updated_columns, errors>>
    /\ UNCHANGED nonPipelineVars

\* execute(): the loop reaches operation i and calls its handler
StartOperation ==
    /\ stage = "execute"
    /\ state \in {"idle", "running"}
    /\ \E i \in DOMAIN operations :
          /\ CanStartOperation(operation_results, i)
          /\ cur' = i
          /\ operation_results' = [operation_results EXCEPT ![i] = "running"]
    /\ state' = "running"
    /\ row_values' = EmptyMap
    /\ UNCHANGED <<stage, retries, operations, tables,
                   variables, new_columns, updated_columns, errors>>
    /\ UNCHANGED nonPipelineVars

\* one iteration of the row loop of add_column / update_column; rows are
\* independent, so any row not evaluated yet may come next
EvaluateRow ==
    /\ stage = "execute"
    /\ state = "running"
    /\ cur \in DOMAIN operations
    /\ operation_results[cur] = "running"
    /\ IsRowOperation(OpAt(cur))
    /\ row_precheck(OpAt(cur), tables) = "none"
    /\ \E r \in 1 .. row_count(tables, OpAt(cur).file_id, OpAt(cur).table) :
          /\ r \notin DOMAIN row_values
          /\ row_values' =
                Put(row_values, r,
                    evaluate(OpAt(cur).expr,
                             row_context(tables, OpAt(cur).file_id,
                                         OpAt(cur).table, r),
                             variables))
    /\ UNCHANGED <<stage, retries, operations, tables,
                   state, cur, operation_results, variables, new_columns,
                   updated_columns, errors>>
    /\ UNCHANGED nonPipelineVars

\* the row loop of the running operation has nothing left to do
\* (the second body leaves the loop at the first row that fails)
RowsComplete_fail_fast ==
    \/ ~IsRowOperation(OpAt(cur))
    \/ row_precheck(OpAt(cur), tables) # "none"
    \/ DOMAIN row_values =
          1 .. row_count(tables, OpAt(cur).file_id, OpAt(cur).table)
    \/ \E r \in DOMAIN row_values : ~row_values[r].ok
RowsComplete ==
    \/ ~IsRowOperation(OpAt(cur))
    \/ row_precheck(OpAt(cur), tables) # "none"
    \/ DOMAIN row_values =
          1 .. row_count(tables, OpAt(cur).file_id, OpAt(cur).table)

\* the handler of the running operation returns and execute() collects its
\* OperationResult
FinishOperation ==
    /\ stage = "execute"
    /\ state = "running"
    /\ cur \in DOMAIN operations
    /\ operation_results[cur] = "running"
    /\ RowsComplete
    /\ LET op == OpAt(cur)
           res == execute_operation(op, tables, variables, row_values)
       IN  /\ operation_results' =
                [operation_results EXCEPT
                    ![cur] = IF res.ok THEN "ok" ELSE "failed"]
           /\ variables' = variables_after(variables, op, res)
           /\ new_columns' = new_columns_after(new_columns, op, res)
           /\ updated_columns' = updated_columns_after(updated_columns, op, res)
           /\ errors' = errors_after(errors, cur, res)
           /\ tables' = tables_after(tables, op, res)
           /\ state' = state_after_operation(res)
    /\ row_values' = EmptyMap
    /\ UNCHANGED <<stage, retries, operations, cur>>
    /\ UNCHANGED nonPipelineVars

\* execute() returns the ExecutionResult
ReturnResult ==
    /\ stage = "execute"
    /\ state = "running"
    /\ cur \in DOMAIN operations
    /\ operation_results[cur] # "running"
    /\ loop_finished(operation_results)
    /\ state' = "done"
    /\ stage' = "apply"
    /\ UNCHANGED <<retries, operations, tables, cur,
                   operation_results, row_values, variables, new_columns,
                   updated_columns, errors>>
    /\ UNCHANGED nonPipelineVars

\* the caller (Processor) applies the returned columns to the tables
ApplyNewColumns ==
    /\ stage = "apply"
    /\ tables' = apply_new_columns(apply_new_columns(tables, new_columns),
                                   updated_columns)
    /\ stage' = "complete"
    /\ UNCHANGED <<retries, operations, execVars>>
    /\ UNCHANGED nonPipelineVars

Next ==
    \/ Generate
    \/ ValidateRetry
    \/ ValidateContinue
    \/ StartOperation
    \/ EvaluateRow
    \/ FinishOperation
    \/ ReturnResult
    \/ ApplyNewColumns

Spec == Init /\ [][Next]_vars

TypeOK ==
    /\ stage \in {"generate", "validate", "execute", "apply", "complete"}
    /\ retries \in 0 .. max_validation_retries
    /\ state \in {"idle", "running", "done"}
    /\ cur \in 0 .. MaxOps

\* ------------------------------------------- functions applied on their own
\* every function name of the three whitelists
AllFunctions == AGGREGATE_FUNCTIONS \cup ROW_FUNCTIONS \cup SCALAR_FUNCTIONS

ValidateContexts == {"aggregate", "add_column", "update_column", "compute"}

\* what a call can be nested in: the left or right operand of an operator,
\* or the argument of another function
Wrappers == {"left", "right", "arg"}

\* the call f(leaf) under d layers of wrapper w
RECURSIVE NestedCall(_, _, _, _)
NestedCall(f, d, w, leaf) ==
    IF d = 0 THEN Call(f, <<leaf>>)
    ELSE LET inner == NestedCall(f, d - 1, w, leaf)
         IN  CASE w = "left" -> BinOp("+", inner, Val(1))
               [] w = "right" -> BinOp("+", Val(1), inner)
               [] OTHER -> Call("ABS", <<inner>>)

\* the operation object of type t that uses function f: as its "function"
\* for an aggregate, nested in its formula or expression otherwise
BenchOperation(t, f, d, w) ==
    CASE t = "aggregate" ->
            Operation(t, f, "amount", NoField, "x", NoExpr)
      [] t = "add_column" ->
            Operation(t, NoField, NoField, "fresh", NoField,
                      NestedCall(f, d, w, ColRef("amount")))
      [] t = "update_column" ->
            Operation(t, NoField, "amount", NoField, NoField,
                      NestedCall(f, d, w, ColRef("amount")))
      [] OTHER ->
            Operation(t, NoField, NoField, NoField, "x",
                      NestedCall(f, d, w, Val(1)))

\* a text cell
Text == <<"text", 1, 1>>

BenchCells == {Int2Num(0), Int2Num(1), Int2Num(3), Blank, Text}

InitValidate ==
    /\ b_kind = "validate"
    /\ b_type \in ValidateContexts
    /\ b_func \in AllFunctions
    /\ b_depth \in (IF b_type = "aggregate" THEN {0} ELSE 0 .. MaxDepth)
    /\ b_wrap \in (IF b_type = "aggregate" THEN {"arg"} ELSE Wrappers)
    /\ b_column = <<>>

InitAggregate ==
    /\ b_kind = "aggregate"
    /\ b_type = "aggregate"
    /\ b_func \in {"SUM", "AVERAGE", "COUNT"}
    /\ b_depth = 0
    /\ b_wrap = NoField
    /\ b_column \in SeqsUpTo(BenchCells, MaxLen)

InitBench ==
    /\ stage = "generate"
    /\ retries = 0
    /\ operations = <<>>
    /\ tables = CHOOSE t \in LoadedTables : TRUE
    /\ state = "idle"
    /\ cur = 0
    /\ operation_results = <<>>
    /\ row_values = EmptyMap
    /\ variables = EmptyMap
    /\ new_columns = EmptyMap
    /\ updated_columns = EmptyMap
    /\ errors = <<>>
    /\ InitValidate \/ InitAggregate
    /\ b_errors = {}
    /\ b_result = Ok(Blank)
    /\ b_done = FALSE
    /\ ChatOff
    /\ ExtraOff

\* OperationParser validates the one operation
BenchValidate ==
    /\ b_kind = "validate"
    /\ ~b_done
    /\ b_errors' = ValidateOperation(BenchOperation(b_type, b_func, b_depth, b_wrap),
                                     tables)
    /\ b_done' = TRUE
    /\ UNCHANGED <<b_kind, b_type, b_func, b_depth, b_wrap, b_column, b_result>>
    /\ UNCHANGED nonBenchVars

\* the aggregate function is applied to the column
BenchAggregate ==
    /\ b_kind = "aggregate"
    /\ ~b_done
    /\ b_result' = aggregate_function(b_func, b_column)
    /\ b_done' = TRUE
    /\ UNCHANGED <<b_kind, b_type, b_func, b_depth, b_wrap, b_column, b_errors>>
    /\ UNCHANGED nonBenchVars

NextBench ==
    \/ BenchValidate
    \/ BenchAggregate

SpecBench == InitBench /\ [][NextBench]_vars

\* ------------------------------------------------------ the /chat stream
\* the business steps of the protocol, in the order they run
ProtocolSteps == <<"load", "generate", "validate", "execute", "export">>

Deltas == {"a", "b"}

\* what a done event of this step can carry
Outputs(step) == IF step = "validate" THEN {"valid", "invalid"} ELSE {"output"}

StepErrors == {"LLM_TIMEOUT"}
SessionErrors == {"FILE_NOT_FOUND", "INTERNAL_ERROR"}

\* the step the server goes to after a done event: a failed validation
\* sends it back to generate while retries are left
NextStepAfterDone(i, output, retried) ==
    IF ProtocolSteps[i] = "validate" /\ output = "invalid"
       /\ retried < max_validation_retries
    THEN CHOOSE j \in DOMAIN ProtocolSteps : ProtocolSteps[j] = "generate"
    ELSE i + 1

\* a business step is started only while no step has failed
\* (the second body goes on to the next step after a failed one)
CanStartStep_after_error(st) == st \in {"idle", "failed"}
CanStartStep(st) == st = "idle"

\* the event goes out and the client's onMessage handles it
Deliver(ev) ==
    LET msg == onMessage([steps |-> msg_steps, status |-> msg_status,
                          error |-> msg_error], ev)
    IN  /\ event' = ev
        /\ msg_steps' = msg.steps
        /\ msg_status' = msg.status
        /\ msg_error' = msg.error

InitChat ==
    /\ stage = "generate"
    /\ retries = 0
    /\ operations = <<>>
    /\ tables = CHOOSE t \in LoadedTables : TRUE
    /\ state = "idle"
    /\ cur = 0
    /\ operation_results = <<>>
    /\ row_values = EmptyMap
    /\ variables = EmptyMap
    /\ new_columns = EmptyMap
    /\ updated_columns = EmptyMap
    /\ errors = <<>>
    /\ BenchOff
    /\ ExtraOff
    /\ srv_state = "start"
    /\ srv_cur = 0
    /\ srv_next = 1
    /\ srv_stage_id = 0
    /\ srv_retries = 0
    /\ srv_deltas = 0
    /\ event = NoEvent
    /\ msg_steps = assistantMessage.steps
    /\ msg_status = assistantMessage.status
    /\ msg_error = assistantMessage.error

\* event: session
SrvSession ==
    /\ srv_state = "start"
    /\ srv_state' = "idle"
    /\ Deliver(Event("session", "", "", 0, "", "", "", srv_stage_id))
    /\ UNCHANGED <<srv_cur, srv_next, srv_stage_id, srv_retries, srv_deltas>>
    /\ UNCHANGED nonChatVars

\* event: error (session level at the start, system level later)
SrvErrorEvent ==
    /\ srv_state \in {"start", "idle", "running", "streaming"}
    /\ \E code \in SessionErrors :
          Deliver(Event("error", "", "", 0, "", "", code, srv_stage_id))
    /\ srv_state' = "closed"
    /\ UNCHANGED <<srv_cur, srv_next, srv_stage_id, srv_retries, srv_deltas>>
    /\ UNCHANGED nonChatVars

\* { step, stage_id, status: running }: a new stage instance starts
SrvRunning ==
    /\ CanStartStep(srv_state)
    /\ srv_next \in DOMAIN ProtocolSteps
    /\ srv_cur' = srv_next
    /\ srv_stage_id' = srv_stage_id + 1
    /\ srv_state' = "running"
    /\ srv_deltas' = 0
    /\ Deliver(Event("message", ProtocolSteps[srv_next], "running",
                     srv_stage_id + 1, "", "", "", srv_stage_id + 1))
    /\ UNCHANGED <<srv_next, srv_retries>>
    /\ UNCHANGED nonChatVars

\* { step, stage_id, status: streaming, delta }
SrvStreaming ==
    /\ srv_state \in {"running", "streaming"}
    /\ srv_deltas < MaxDeltas
    /\ srv_deltas' = srv_deltas + 1
    /\ srv_state' = "streaming"
    /\ \E d \in Deltas :
          Deliver(Event("message", ProtocolSteps[srv_cur], "streaming",
                        srv_stage_id, d, "", "", srv_stage_id))
    /\ UNCHANGED <<srv_cur, srv_next, srv_stage_id, srv_retries>>
    /\ UNCHANGED nonChatVars

\* { step, stage_id, status: done, output }
SrvDone ==
    /\ srv_state \in {"running", "streaming"}
    /\ \E out \in Outputs(ProtocolSteps[srv_cur]) :
          /\ Deliver(Event("message", ProtocolSteps[srv_cur], "done",
                           srv_stage_id, "", out, "", srv_stage_id))
          /\ srv_next' = NextStepAfterDone(srv_cur, out, srv_retries)
          /\ srv_retries' =
                IF NextStepAfterDone(srv_cur, out, srv_retries) <= srv_cur
                THEN srv_retries + 1 ELSE srv_retries
    /\ srv_state' = "idle"
    /\ UNCHANGED <<srv_cur, srv_stage_id, srv_deltas>>
    /\ UNCHANGED nonChatVars

\* { step, stage_id, status: error, error }
SrvStepError ==
    /\ srv_state \in {"running", "streaming"}
    /\ \E code \in StepErrors :
          Deliver(Event("message", ProtocolSteps[srv_cur], "error",
                        srv_stage_id, "", "", code, srv_stage_id))
    /\ srv_state' = "failed"
    /\ srv_next' = srv_cur + 1
    /\ UNCHANGED <<srv_cur, srv_stage_id, srv_retries, srv_deltas>>
    /\ UNCHANGED nonChatVars

\* { step: complete, status: done, output: { success } } closes the stream:
\* after the last step, or after a step has failed
SrvComplete ==
    /\ \/ srv_state = "idle" /\ srv_next \notin DOMAIN ProtocolSteps
       \/ srv_state = "failed"
    /\ Deliver(Event("message", "complete", "done", 0, "",
                     IF srv_state = "failed" THEN "failure" ELSE "success",
                     "", srv_stage_id))
    /\ srv_state' = "closed"
    /\ UNCHANGED <<srv_cur, srv_next, srv_stage_id, srv_retries, srv_deltas>>
    /\ UNCHANGED nonChatVars

\* the stream ends after its last event and fetchSSE calls onSuccess
StreamEnds ==
    /\ srv_state = "closed"
    /\ srv_state' = "ended"
    /\ msg_status' = onSuccess(msg_status)
    /\ UNCHANGED <<srv_cur, srv_next, srv_stage_id, srv_retries, srv_deltas,
                   event, msg_steps, msg_error>>
    /\ UNCHANGED nonChatVars

NextChat ==
    \/ StreamEnds
    \/ SrvSession
    \/ SrvErrorEvent
    \/ SrvRunning
    \/ SrvStreaming
    \/ SrvDone
    \/ SrvStepError
    \/ SrvComplete

SpecChat == InitChat /\ [][NextChat]_vars

\* ------------------------------------------------- the thread history
\* the steps a stored turn can hold: the step, its status, and whether the
\* record carries the payload of that status (output / error)
HistorySteps == {"generate", "execute"}
HistoryRecords ==
    [step : HistorySteps, status : {"running", "done", "error"},
     payload : BOOLEAN]
TurnStatuses == {"pending", "processing", "completed", "failed"}

\* mutate.onSuccess: a stored record becomes a StepRecord; done without
\* output and error without error fall through to running
turnSteps(steps) ==
    [i \in DOMAIN steps |->
        [step |-> steps[i].step,
         status |-> IF steps[i].status = "done" /\ steps[i].payload THEN "done"
                    ELSE IF steps[i].status = "error" /\ steps[i].payload
                         THEN "error"
                    ELSE IF steps[i].status = "streaming" THEN "streaming"
                    ELSE "running"]]

\* mutate.onSuccess: the message status that follows from turn.status
assistantStatus(status) ==
    CASE status = "processing" -> "streaming"
      [] status = "failed" -> "error"
      [] status = "pending" -> "pending"
      [] OTHER -> "done"

\* mutate.onSuccess: some record of the turn is an error record
hasStepError(steps) == \E i \in DOMAIN steps : steps[i].status = "error"

\* mutate.onSuccess: the assistant message of one turn
historyMessage(status, steps) ==
    LET ts == turnSteps(steps)
    IN  [status |-> IF hasStepError(ts) THEN "error" ELSE assistantStatus(status),
         steps |-> ts,
         error |-> IF hasStepError(ts) THEN "step" ELSE ""]

InitHistory ==
    /\ PipelineOff
    /\ BenchOff
    /\ ChatOff
    /\ h_status \in TurnStatuses
    /\ h_steps \in SeqsUpTo(HistoryRecords, MaxLen)
    /\ h_message = [status |-> "pending", steps |-> <<>>, error |-> ""]
    /\ h_done = FALSE
    /\ PageOff
    /\ UploadOff

\* getThreadDetail has returned and mutate.onSuccess builds the message
LoadHistory ==
    /\ ~h_done
    /\ h_message' = historyMessage(h_status, h_steps)
    /\ h_done' = TRUE
    /\ UNCHANGED <<h_status, h_steps>>
    /\ UNCHANGED nonHistoryVars

NextHistory == LoadHistory

SpecHistory == InitHistory /\ [][NextHistory]_vars

\* ------------------------------------------------------ the thread page
Requests == 1 .. MaxRequests

\* route parameter: no thread, a thread of the thread list, or the thread a
\* request r > 0 has created
NoThread == 0
ExistingThread == -1

\* the events the stream of a request delivers, in order
StreamScript ==
    <<Event("session", "", "", 0, "", "", "", 0),
      Event("message", "load", "running", 1, "", "", "", 1),
      Event("message", "load", "done", 1, "", "output", "", 1),
      Event("message", "complete", "done", 0, "", "success", "", 1)>>

\* sendMessage: the two messages of a turn
userMessage(turn) ==
    [turn |-> turn, role |-> "user", steps |-> <<>>, status |-> "",
     error |-> ""]
turnAssistantMessage(turn) ==
    [turn |-> turn, role |-> "assistant", steps |-> assistantMessage.steps,
     status |-> assistantMessage.status, error |-> assistantMessage.error]

\* mutate.onSuccess: the messages of the loaded thread (turn 0: history)
historyMessages ==
    <<userMessage(0),
      [turnAssistantMessage(0) EXCEPT
          !.status = historyMessage("completed", <<>>).status]>>

\* updateMessages(draft => ...) of the handlers: the last message of the
\* list is changed when it is an assistant message
updateLast(msgs, new) ==
    IF msgs # <<>> /\ msgs[Len(msgs)].role = "assistant"
    THEN [msgs EXCEPT ![Len(msgs)] = new]
    ELSE msgs

\* the handlers useChat hands to fetchSSE
events_onMessage(msgs, ev) ==
    IF msgs = <<>> THEN msgs
    ELSE updateLast(msgs, onMessage(msgs[Len(msgs)], ev))
events_onError(msgs, message) ==
    IF msgs = <<>> THEN msgs
    ELSE updateLast(msgs, [msgs[Len(msgs)] EXCEPT !.status = "error",
                                                 !.error = message])
events_onSuccess(msgs) ==
    IF msgs = <<>> THEN msgs
    ELSE updateLast(msgs, [msgs[Len(msgs)] EXCEPT !.status = onSuccess(@)])

\* fetchSSE.trigger: the catch block calls onError unless the error is an
\* AbortError (the second body calls it for every error)
catch_block_any(name) == <<"onError">>
catch_block(name) == IF name # "AbortError" THEN <<"onError">> ELSE <<>>

\* fetchSSE.trigger: the finally block calls onFinally
\* (the second body leaves it out when the request was aborted)
finally_block_unless_aborted(name) ==
    IF name # "AbortError" THEN <<"onFinally">> ELSE <<>>
finally_block(name) == <<"onFinally">>

Has(calls, name) == \E i \in DOMAIN calls : calls[i] = name

NoRequest ==
    [pc |-> "none", aborted |-> FALSE, sent |-> 0, log |-> <<>>,
     from |-> "none"]

Running(r) == requests[r].pc \in {"fetch", "read"}

\* the calls are made: each is logged and useChat's handlers take effect
Settle(r, pc, calls, message) ==
    /\ requests' = [requests EXCEPT ![r].pc = pc, ![r].log = @ \o calls]
    /\ messages' = IF Has(calls, "onError")
                    THEN events_onError(messages, message)
                    ELSE IF Has(calls, "onSuccess")
                         THEN events_onSuccess(messages)
                    ELSE messages
    /\ isProcessing' = IF Has(calls, "onFinally") THEN FALSE ELSE isProcessing

\* useChat.sendMessage: the request before is aborted, the two messages of
\* the turn are pushed and the request is started
sendMessage(from) ==
    \E r \in Requests :
        /\ requests[r].pc = "none"
        /\ \A q \in 1 .. r - 1 : requests[q].pc # "none"
        /\ requests' =
              [q \in Requests |->
                 IF q = r
                 THEN [NoRequest EXCEPT !.pc = "fetch", !.from = from]
                 ELSE IF q = abortRef /\ Running(q)
                      THEN [requests[q] EXCEPT !.aborted = TRUE]
                 ELSE requests[q]]
        /\ messages' = messages \o <<userMessage(r), turnAssistantMessage(r)>>
        /\ isProcessing' = TRUE
        /\ abortRef' = r

InitPage ==
    /\ PipelineOff
    /\ BenchOff
    /\ ChatOff
    /\ HistoryOff
    /\ UploadOff
    /\ threadId \in {NoThread, ExistingThread}
    /\ rendered = threadId
    /\ messages = IF threadId = NoThread THEN <<>> ELSE historyMessages
    /\ isProcessing = FALSE
    /\ abortRef = 0
    /\ requests = [r \in Requests |-> NoRequest]
    /\ initThreadId = 0
    /\ mutating = 0

\* handleSubmit on the new-session page: the message is sent directly
Submit ==
    /\ ~isProcessing
    /\ threadId = NoThread
    /\ sendMessage("new")
    /\ UNCHANGED <<threadId, rendered, initThreadId, mutating>>
    /\ UNCHANGED nonPageVars

\* handleSubmit inside a thread, then handleConfirmNewSession ->
\* doSendMessage: navigate('/threads') and sendMessage
ConfirmNewSession ==
    /\ ~isProcessing
    /\ threadId # NoThread
    /\ threadId' = NoThread
    /\ sendMessage("thread")
    /\ UNCHANGED <<rendered, initThreadId, mutating>>
    /\ UNCHANGED nonPageVars

\* the user opens a thread of the thread list
OpenThread ==
    /\ threadId # ExistingThread
    /\ threadId' = ExistingThread
    /\ UNCHANGED <<messages, isProcessing, abortRef, requests, rendered,
                   initThreadId, mutating>>
    /\ UNCHANGED nonPageVars

\* useEffect on [threadId]: the page has rendered with a new threadId
RunEffect ==
    /\ threadId # rendered
    /\ rendered' = threadId
    /\ IF threadId # NoThread
       THEN IF initThreadId = 0
            THEN /\ messages' = <<>>
                 /\ mutating' = threadId
                 /\ UNCHANGED initThreadId
            ELSE /\ initThreadId' = 0
                 /\ UNCHANGED <<messages, mutating>>
       ELSE /\ messages' = <<>>
            /\ UNCHANGED <<initThreadId, mutating>>
    /\ UNCHANGED <<isProcessing, abortRef, requests, threadId>>
    /\ UNCHANGED nonPageVars

\* mutate.onSuccess: getThreadDetail has returned, setMessages(messages)
HistoryLoaded ==
    /\ mutating # 0
    /\ messages' = historyMessages
    /\ mutating' = 0
    /\ UNCHANGED <<isProcessing, abortRef, requests, threadId, rendered,
                   initThreadId>>
    /\ UNCHANGED nonPageVars

\* trigger: fetch() resolves; onStart, then the response is read or, when
\* it is not ok, an Error is thrown
FetchResolves ==
    /\ \E r \in Requests, ok \in BOOLEAN :
          /\ requests[r].pc = "fetch"
          /\ ~requests[r].aborted
          /\ IF ok
             THEN Settle(r, "read", <<"onStart">>, "")
             ELSE Settle(r, "end",
                         <<"onStart">> \o catch_block("Error")
                            \o finally_block("Error"),
                         "request failed")
    /\ UNCHANGED <<abortRef, threadId, rendered, initThreadId, mutating>>
    /\ UNCHANGED nonPageVars

\* trigger: fetch() or the reading of the stream fails on the network
NetworkFails ==
    /\ \E r \in Requests :
          /\ Running(r)
          /\ ~requests[r].aborted
          /\ Settle(r, "end",
                    catch_block("TypeError") \o finally_block("TypeError"),
                    "network error")
    /\ UNCHANGED <<abortRef, threadId, rendered, initThreadId, mutating>>
    /\ UNCHANGED nonPageVars

\* trigger: the next event of the stream is read and onMessage handles it;
\* a session event goes to onSessionCreated
StreamEvent ==
    /\ \E r \in Requests :
          /\ requests[r].pc = "read"
          /\ ~requests[r].aborted
          /\ requests[r].sent < Len(StreamScript)
          /\ LET ev == StreamScript[requests[r].sent + 1]
             IN  /\ requests' = [requests EXCEPT
                                    ![r].sent = @ + 1,
                                    ![r].log = Append(@, "onMessage")]
                 /\ messages' = events_onMessage(messages, ev)
                 /\ IF ev.event = "session"
                    THEN initThreadId' = r /\ threadId' = r
                    ELSE UNCHANGED <<initThreadId, threadId>>
    /\ UNCHANGED <<isProcessing, abortRef, rendered, mutating>>
    /\ UNCHANGED nonPageVars

\* trigger: the stream has ended; onSuccess
StreamCloses ==
    /\ \E r \in Requests :
          /\ requests[r].pc = "read"
          /\ ~requests[r].aborted
          /\ requests[r].sent = Len(StreamScript)
          /\ Settle(r, "end", <<"onSuccess">> \o finally_block(""), "")
    /\ UNCHANGED <<abortRef, threadId, rendered, initThreadId, mutating>>
    /\ UNCHANGED nonPageVars

NextPage ==
    \/ Submit
    \/ ConfirmNewSession
    \/ OpenThread
    \/ RunEffect
    \/ HistoryLoaded
    \/ FetchResolves
    \/ NetworkFails
    \/ StreamEvent
    \/ StreamCloses

SpecPage == InitPage /\ [][NextPage]_vars

\* useChat and fetchSSE on their own: sendMessage may be called at any time,
\* also while a request is running, and that request is then aborted
SendMessage ==
    /\ sendMessage("hook")
    /\ UNCHANGED <<threadId, rendered, initThreadId, mutating>>
    /\ UNCHANGED nonPageVars

\* trigger: the aborted fetch() or read rejects with an AbortError
AbortSettles ==
    /\ \E r \in Requests :
          /\ Running(r)
          /\ requests[r].aborted
          /\ Settle(r, "end",
                    catch_block("AbortError") \o finally_block("AbortError"),
                    "aborted")
    /\ UNCHANGED <<abortRef, threadId, rendered, initThreadId, mutating>>
    /\ UNCHANGED nonPageVars

NextHook ==
    \/ FetchResolves
    \/ NetworkFails
    \/ StreamEvent
    \/ StreamCloses
    \/ SendMessage
    \/ AbortSettles

SpecHook == InitPage /\ [][NextHook]_vars

\* ------------------------------------------------------ the file uploads
Files == 1 .. MaxFiles

\* a file item; a field the item does not carry is 0 / ""
FileItem(file, status, progress, fileId) ==
    [file |-> file, status |-> status, progress |-> progress, fileId |-> fileId]

\* what updated[index] reads past the end of the list, and what spreading
\* it gives
Undefined == FileItem(0, "undefined", 0, 0)
ItemAt(items, index) ==
    IF index \in DOMAIN items /\ items[index] # Undefined
    THEN items[index]
    ELSE FileItem(0, "", 0, 0)

\* const updated = [...prev]; updated[index] = item (index counted from 1)
SetAt(items, index, item) ==
    [i \in 1 .. (IF index > Len(items) THEN index ELSE Len(items)) |->
        IF i = index THEN item
        ELSE IF i \in DOMAIN items THEN items[i] ELSE Undefined]

\* prev.filter((_, idx) => idx !== index)
RemoveAt(items, index) ==
    [i \in 1 .. Len(items) - 1 |-> IF i < index THEN items[i] ELSE items[i + 1]]

NoUpload == [index |-> 0, pc |-> "none", after |-> 0, progress |-> 0]

InitUpload ==
    /\ PipelineOff
    /\ BenchOff
    /\ ChatOff
    /\ HistoryOff
    /\ PageOff
    /\ fileItems = <<>>
    /\ uploads = [f \in Files |-> NoUpload]

\* uploadFilesBatch: the new items are appended, and uploadSingleFile starts
\* for the first file at startIndex; the next file waits for it
AddFiles ==
    /\ \E f \in Files, n \in 1 .. 2 :
          /\ f + n - 1 \in Files
          /\ uploads[f].pc = "none"
          /\ \A g \in 1 .. f - 1 : uploads[g].pc # "none"
          /\ LET startIndex == Len(fileItems)
                 newFileItems ==
                    [i \in 1 .. n |-> FileItem(f + i - 1, "uploading", 0, 0)]
             IN  /\ fileItems' =
                       SetAt(fileItems \o newFileItems, startIndex + 1,
                             FileItem(f, "uploading", 0, 0))
                 /\ uploads' =
                       [g \in Files |->
                          IF g = f
                          THEN [NoUpload EXCEPT !.index = startIndex + 1,
                                                !.pc = "uploading"]
                          ELSE IF g \in f + 1 .. f + n - 1
                               THEN [NoUpload EXCEPT
                                        !.index = startIndex + 1 + (g - f),
                                        !.pc = "waiting", !.after = g - 1]
                          ELSE uploads[g]]
    /\ UNCHANGED nonUploadVars

\* uploadSingleFile: the progress callback
Progress ==
    /\ \E f \in Files :
          /\ uploads[f].pc = "uploading"
          /\ uploads[f].progress = 0
          /\ uploads' = [uploads EXCEPT ![f].progress = 50]
          /\ fileItems' =
                SetAt(fileItems, uploads[f].index,
                      [ItemAt(fileItems, uploads[f].index) EXCEPT
                          !.progress = 50])
    /\ UNCHANGED nonUploadVars

\* uploadSingleFile: uploadFiles returns (success) or throws (error); the
\* loop of uploadFilesBatch then starts the next file of the batch
Finish ==
    /\ \E f \in Files, ok \in BOOLEAN :
          /\ uploads[f].pc = "uploading"
          /\ LET index == uploads[f].index
                 done ==
                    SetAt(fileItems, index,
                          IF ok
                          THEN [ItemAt(fileItems, index) EXCEPT
                                   !.status = "success", !.progress = 100,
                                   !.fileId = f]
                          ELSE [ItemAt(fileItems, index) EXCEPT
                                   !.status = "error"])
                 next == {g \in Files : uploads[g].pc = "waiting"
                                         /\ uploads[g].after = f}
             IN  /\ fileItems' =
                       IF next = {} THEN done
                       ELSE LET g == CHOOSE g \in next : TRUE
                            IN  SetAt(done, uploads[g].index,
                                      FileItem(g, "uploading", 0, 0))
                 /\ uploads' =
                       [g \in Files |->
                          IF g = f
                          THEN [uploads[g] EXCEPT
                                   !.pc = IF ok THEN "success" ELSE "error"]
                          ELSE IF g \in next
                               THEN [uploads[g] EXCEPT !.pc = "uploading"]
                          ELSE uploads[g]]
    /\ UNCHANGED nonUploadVars

\* removeFileById -> removeFile: an uploaded file is taken off the list
RemoveFile ==
    /\ \E i \in DOMAIN fileItems :
          /\ fileItems[i].fileId # 0
          /\ fileItems[i].status # "uploading"
          /\ fileItems' = RemoveAt(fileItems, i)
    /\ UNCHANGED uploads
    /\ UNCHANGED nonUploadVars

NextUpload ==
    \/ AddFiles
    \/ Progress
    \/ Finish
    \/ RemoveFile

SpecUpload == InitUpload /\ [][NextUpload]_vars

\* ================================================================ claims
Finished(i) == operation_results[i] \in {"ok", "failed"}

\* the step in which the handler of operation i returns
Returns(i) ==
    /\ i \in DOMAIN operation_results
    /\ operation_results[i] = "running"
    /\ operation_results'[i] \in {"ok", "failed"}

Fails(i) == Returns(i) /\ operation_results'[i] = "failed"

\* C1: operations are started in list order: an operation that has been
\* started has every earlier operation finished, and at most one operation
\* of the run is in progress at any time.
C1_ListOrder ==
    /\ Cardinality({i \in DOMAIN operation_results :
                      operation_results[i] = "running"}) <= 1
    /\ \A i \in DOMAIN operation_results :
          (i > 1 /\ operation_results[i] # "pending") => Finished(i - 1)

C1_Witness ==
    /\ Len(operation_results) >= 2
    /\ Finished(1)
    /\ operation_results[2] = "running"

ControlStep ==
    \/ state' = state /\ cur' = cur
    \/ state = "idle" /\ state' = "running" /\ cur' = 1
    \/ /\ state = "running" /\ state' = "running" /\ cur' = cur + 1
       /\ Finished(cur)
    \/ /\ state = "running" /\ state' = "done" /\ cur' = cur
       /\ cur = Len(operations)
       /\ Finished(cur)

C3_LaterOperationsAttempted ==
    state = "done" => \A i \in DOMAIN operation_results : Finished(i)

C3_Witness ==
    /\ stage = "apply"
    /\ Len(operation_results) >= 2
    /\ operation_results[1] = "failed"
    /\ operation_results[2] = "ok"

\* every entry of map m is still in m' with the same value
Kept(m, n) == \A key \in DOMAIN m : key \in DOMAIN n /\ n[key] = m[key]

\* C4: when an operation fails, every variable and column recorded before it
\* is still in the result with the value it had (no rollback).
C4_NoRollback ==
    [][(\E i \in DOMAIN operation_results : Fails(i)) =>
          /\ Kept(variables, variables')
          /\ Kept(new_columns, new_columns')
          /\ Kept(updated_columns, updated_columns')]_vars

C4_Witness ==
    /\ Len(operation_results) >= 2
    /\ operation_results[1] = "ok"
    /\ operation_results[2] = "failed"
    /\ DOMAIN variables # {}

\* columns of the target sheet an operation reads
ColumnsRead(op) ==
    (IF op.type \in {"aggregate", "update_column"} THEN {op.column} ELSE {})
    \cup ColsOf(op.expr)

\* C5: a failing operation adds no variable and no column, and an operation
\* that reads a variable or column that is absent fails with a
\* missing-reference error; nothing is substituted for it.
C5_MissingReferenceFails ==
    [][\A i \in DOMAIN operation_results :
          /\ Fails(i) =>
                /\ DOMAIN variables' \subseteq DOMAIN variables
                /\ DOMAIN new_columns' \subseteq DOMAIN new_columns
                /\ DOMAIN updated_columns' \subseteq DOMAIN updated_columns
          /\ (Returns(i) /\ OpAt(i).type \in {"compute", "update_column"}
                /\ ~(VarsOf(OpAt(i).expr) \subseteq DOMAIN variables)) =>
                /\ operation_results'[i] = "failed"
                /\ errors'[Len(errors')].op = i
                /\ errors'[Len(errors')].cause = "missing_variable"
          /\ (Returns(i) /\ OpAt(i).type \in {"aggregate", "update_column"}
                /\ OpAt(i).as # NoField
                /\ ~(ColumnsRead(OpAt(i))
                        \subseteq get_columns(tables, OpAt(i).file_id,
                                              OpAt(i).table))) =>
                /\ operation_results'[i] = "failed"
                /\ errors'[Len(errors')].op = i
                /\ errors'[Len(errors')].cause = "missing_column"]_vars

C5_Witness ==
    /\ operations = <<2, 4>>
    /\ Len(errors) = 2
    /\ errors[1].cause = "division_by_zero"
    /\ errors[2].cause = "missing_variable"
    /\ DOMAIN variables = {}

FailingRows == {r \in DOMAIN row_values : ~row_values[r].ok}

\* C7: when the formula fails for at least one row of an add_column, the
\* step records nothing in new_columns (no entry for the column exists) and
\* appends an error that names failing row indices and counts all of them.
C7_NoPartialColumn ==
    [][\A i \in DOMAIN operation_results :
          (Returns(i) /\ OpAt(i).type = "add_column" /\ FailingRows # {}) =>
              /\ operation_results'[i] = "failed"
              /\ new_columns' = new_columns
              /\ <<OpAt(i).file_id, OpAt(i).table, OpAt(i).name>>
                    \notin DOMAIN new_columns'
              /\ LET e == errors'[Len(errors')]
                 IN  /\ Len(errors') = Len(errors) + 1
                     /\ e.op = i
                     /\ e.kind = "rows_failed"
                     /\ e.rows # {}
                     /\ e.rows \subseteq FailingRows
                     /\ \A r \in FailingRows :
                           (\A q \in FailingRows : r <= q) => r \in e.rows
                     /\ e.total = Cardinality(FailingRows)]_vars

C7_Witness ==
    \E i \in DOMAIN operation_results :
        /\ OpAt(i).type = "add_column"
        /\ operation_results[i] = "failed"
        /\ \E j \in DOMAIN errors :
              /\ errors[j].op = i
              /\ errors[j].kind = "rows_failed"
              /\ errors[j].total < NRows
        /\ <<OpAt(i).file_id, OpAt(i).table, OpAt(i).name>>
              \notin DOMAIN new_columns

\* C9: a variable that has been set keeps its name and value for the rest of
\* the run, and an aggregate or compute whose "as" name is already defined
\* fails with an error.
C9_VariablesOnlyGrow ==
    [][/\ Kept(variables, variables')
       /\ \A i \in DOMAIN operation_results :
             (Returns(i) /\ OpAt(i).type \in {"aggregate", "compute"}
                /\ OpAt(i).as \in DOMAIN variables) =>
                 /\ operation_results'[i] = "failed"
                 /\ Len(errors') = Len(errors) + 1
                 /\ errors'[Len(errors')].op = i]_vars

C9_Witness ==
    /\ \E j \in DOMAIN errors : errors[j].kind = "duplicate_variable"
    /\ "total" \in DOMAIN variables

C12_AddColumnNameAbsent ==
    [][\A i \in DOMAIN operation_results :
          (Returns(i) /\ OpAt(i).type = "add_column") =>
              LET present == OpAt(i).name \in get_columns(tables, OpAt(i).file_id,
                                                         OpAt(i).table)
              IN  /\ present =>
                        /\ operation_results'[i] = "failed"
                        /\ Len(errors') = Len(errors) + 1
                        /\ errors'[Len(errors')].op = i
                        /\ errors'[Len(errors')].kind = "column_exists"
                        /\ new_columns' = new_columns
                  /\ operation_results'[i] = "ok" =>
                        /\ ~present
                        /\ <<OpAt(i).file_id, OpAt(i).table, OpAt(i).name>>
                              \in DOMAIN new_columns']_vars

C12_Witness ==
    /\ validation_errors = {}
    /\ \E i \in DOMAIN operation_results :
          /\ OpAt(i).type = "add_column"
          /\ OpAt(i).name \in get_columns(tables, OpAt(i).file_id, OpAt(i).table)
          /\ operation_results[i] = "failed"
          /\ \E e \in DOMAIN errors :
                errors[e].op = i /\ errors[e].kind = "column_exists"
    /\ \E j \in DOMAIN operation_results :
          OpAt(j).type = "add_column" /\ operation_results[j] = "ok"
    /\ stage = "apply"

\* what evaluating every row of row operation op gives, row by row
ExpectedRows(op) ==
    [r \in 1 .. row_count(tables, op.file_id, op.table) |->
        evaluate(op.expr, row_context(tables, op.file_id, op.table, r),
                 variables)]

C14_EveryViolationListed ==
    stage = "validate" =>
        \A i \in DOMAIN operations :
            LET op == OpAt(i)
            IN  /\ op.type \notin VALID_TYPES =>
                      <<i, "unknown_type", op.type>> \in validation_errors
                /\ op.type \in VALID_TYPES =>
                      /\ \A f \in RequiredFields(op) :
                            FieldAbsent(op, f) =>
                                <<i, "missing_field", f>> \in validation_errors
                      /\ \A f \in FuncsOf(op.expr) :
                            f \notin WhitelistOf(op) =>
                                <<i, "unknown_function", f>> \in validation_errors
                      /\ \A c \in ReferencedColumns(op) :
                            c \notin get_columns(tables, op.file_id, op.table) =>
                                <<i, "unknown_column", c>> \in validation_errors

\* two operations of the document each have a violation
C14_Witness ==
    /\ stage = "validate"
    /\ Len(operations) = 2
    /\ \E x, y \in validation_errors : x[1] = 1 /\ y[1] = 2 /\ x[2] # y[2]

\* C15: a function name passes validation only in the context whose
\* whitelist has it: in an add_column or update_column formula only a row
\* function, in a compute expression only a scalar function, as the function
\* of an aggregate only an aggregate function; any other name is reported as
\* a violation however deep the call is nested.
C15_WhitelistPerContext ==
    (b_kind = "validate" /\ b_done) =>
        LET allowed ==
              CASE b_type = "aggregate" -> AGGREGATE_FUNCTIONS
                [] b_type = "compute" -> SCALAR_FUNCTIONS
                [] OTHER -> ROW_FUNCTIONS
        IN  /\ b_func \notin allowed => <<"unknown_function", b_func>> \in b_errors
            /\ b_func \in allowed => b_errors = {}

\* an aggregate-only function two levels down in a row formula, rejected
C15_Witness ==
    /\ b_kind = "validate"
    /\ b_done
    /\ b_type = "add_column"
    /\ b_func = "SUM"
    /\ b_depth = MaxDepth
    /\ b_errors # {}

IsNumberCell(c) == c[1] = "num"
NotBlankCell(c) == c[1] # "blank"

\* sum of the numerators of whole-number cells
RECURSIVE IntSum(_)
IntSum(cells) == IF cells = <<>> THEN 0 ELSE Head(cells)[2] + IntSum(Tail(cells))

\* C16: SUM, AVERAGE and COUNT over a column use the number cells only: SUM
\* is their total, COUNT their number, AVERAGE the total over that number, so
\* AVERAGE over [1, blank, 3] is 2; taking the blank cells out of the column
\* changes no result.
C16_AggregatesIgnoreBlanks ==
    (b_kind = "aggregate" /\ b_done) =>
        LET nums == SelectSeq(b_column, IsNumberCell)
        IN  /\ b_func = "SUM" => b_result = Ok(Int2Num(IntSum(nums)))
            /\ b_func = "COUNT" => b_result = Ok(Int2Num(Len(nums)))
            /\ (b_func = "AVERAGE" /\ Len(nums) > 0) =>
                  b_result = Ok(Num(IntSum(nums), Len(nums)))
            /\ (b_func = "AVERAGE"
                  /\ b_column = <<Int2Num(1), Blank, Int2Num(3)>>) =>
                  b_result = Ok(Int2Num(2))
            /\ b_result = aggregate_function(b_func,
                                             SelectSeq(b_column, NotBlankCell))

C16_Witness ==
    /\ b_kind = "aggregate"
    /\ b_done
    /\ b_func = "AVERAGE"
    /\ b_column = <<Int2Num(1), Blank, Int2Num(3)>>
    /\ b_result = Ok(Int2Num(2))

\* C18: a step record of the assistant message starts as running and only
\* goes running -> streaming -> done, running -> done, running -> error or
\* running -> streaming -> error; a record that is done or error is never
\* changed again, and no record is removed.
C18_StepRecordLifecycle ==
    [][/\ \A i \in DOMAIN msg_steps :
             /\ i \in DOMAIN msg_steps'
             /\ msg_steps'[i].step = msg_steps[i].step
             /\ msg_steps[i].status \in {"done", "error"} =>
                   msg_steps'[i] = msg_steps[i]
             /\ msg_steps[i].status = "running" =>
                   msg_steps'[i].status \in {"running", "streaming", "done", "error"}
             /\ msg_steps[i].status = "streaming" =>
                   msg_steps'[i].status \in {"streaming", "done", "error"}
       /\ \A i \in DOMAIN msg_steps' \ DOMAIN msg_steps :
             msg_steps'[i].status = "running"]_vars

\* a second attempt of generate has streamed and failed, after a first
\* attempt that is done
C18_Witness ==
    \E i, j \in DOMAIN msg_steps :
        /\ i < j
        /\ msg_steps[i].step = "generate" /\ msg_steps[i].status = "done"
        /\ msg_steps[j].step = "generate" /\ msg_steps[j].status = "error"
        /\ event.status = "error" /\ srv_deltas > 0

LastRecordOf(steps, x) ==
    IF \E i \in DOMAIN steps : steps[i].step = x
    THEN CHOOSE i \in DOMAIN steps :
            /\ steps[i].step = x
            /\ \A j \in DOMAIN steps : j > i => steps[j].step # x
    ELSE 0

C21_BoundedRetries ==
    [][/\ retries' <= max_validation_retries
       /\ (stage' = "generate" /\ stage # "generate") =>
              /\ stage = "validate"
              /\ validation_errors # {}
              /\ retries' = retries + 1
       /\ stage' # "generate" => retries' = retries]_vars

\* the last allowed attempt has failed validation as well
C21_Witness ==
    /\ stage = "validate"
    /\ retries = max_validation_retries
    /\ validation_errors # {}

\* a running event of a business step has just been handled
RunningHandled ==
    /\ srv_stage_id' = srv_stage_id + 1
    /\ event'.status = "running"

\* C22: a running event of any business step of the protocol (load,
\* generate, validate, execute, export) adds a record of that step to the
\* assistant message.
C22_EveryProtocolStepAccepted ==
    [][RunningHandled =>
          /\ Len(msg_steps') = Len(msg_steps) + 1
          /\ msg_steps'[Len(msg_steps')].step = event'.step
          /\ msg_steps'[Len(msg_steps')].status = "running"]_vars

\* getStepRecord: the last record of step x in a turn's steps (0: none)
LastIndexOf(steps, x) ==
    LET idx == {i \in DOMAIN steps : steps[i].step = x}
    IN  IF idx = {} THEN 0 ELSE CHOOSE i \in idx : \A j \in idx : i >= j

\* C23: a loaded turn that completed, in which an earlier attempt of a step
\* failed but the last record of every step is done, is shown as done.
C23_LastRecordDecides ==
    (/\ h_done
     /\ h_status = "completed"
     /\ \E i \in DOMAIN h_steps :
           h_steps[i].status = "error" /\ h_steps[i].payload
     /\ \A i \in DOMAIN h_steps :
           LET l == h_steps[LastIndexOf(h_steps, h_steps[i].step)]
           IN  l.status = "done" /\ l.payload)
    => h_message.status = "done"

\* C24: once the status of the assistant message is error it stays error,
\* whatever the stream delivers afterwards and also when the stream ends.
C24_ErrorStatusIsFinal ==
    [][msg_status = "error" => msg_status' = "error"]_vars

\* an event of request r is handled in this step
EventHandled(r) == requests'[r].sent = requests[r].sent + 1

\* C25: the events of a request change no message but the assistant
\* message of the turn the request was sent for.
C25_EventsChangeOwnMessage ==
    [][\A r \in Requests :
          EventHandled(r) =>
             /\ Len(messages') = Len(messages)
             /\ \A i \in DOMAIN messages :
                   messages'[i] # messages[i] =>
                      /\ messages[i].turn = r
                      /\ messages[i].role = "assistant"]_vars

\* C26: isProcessing is true for as long as the request sent last has not
\* finished, also when an earlier request that it superseded finishes.
C26_ProcessingWhileLatestRuns ==
    (abortRef \in Requests /\ Running(abortRef)) => isProcessing

\* the two messages of turn r are in the list, the assistant message last
HasTurn(msgs, r) ==
    /\ Len(msgs) >= 2
    /\ msgs[Len(msgs) - 1] = userMessage(r)
    /\ msgs[Len(msgs)].turn = r
    /\ msgs[Len(msgs)].role = "assistant"

\* C27: the messages of a turn sent from inside a thread stay in the list,
\* the assistant message last, until the request ends (unless the user
\* opens another thread meanwhile).
C27_NewSessionMessagesKept ==
    \A r \in Requests :
        (/\ requests[r].from = "thread"
         /\ Running(r)
         /\ threadId # ExistingThread)
        => HasTurn(messages, r)

\* how often a handler has been called for a request
Calls(log, name) == Cardinality({i \in DOMAIN log : log[i] = name})

\* C28: when trigger() of a request has ended, onFinally has been called
\* exactly once for it and as the last call, after every onMessage and after
\* onSuccess / onError; before that it has not been called.
C28_FinallyOnceAndLast ==
    \A r \in Requests :
        LET log == requests[r].log
        IN  /\ Calls(log, "onFinally") = IF requests[r].pc = "end" THEN 1 ELSE 0
            /\ requests[r].pc = "end" => log[Len(log)] = "onFinally"
            /\ Calls(log, "onSuccess") + Calls(log, "onError") <= 1
            /\ (requests[r].pc = "end" /\ ~requests[r].aborted) =>
                  log[Len(log) - 1] \in {"onSuccess", "onError"}

\* one request was aborted while its stream was read, another one ended
\* normally
C28_Witness ==
    \E r, q \in Requests :
        /\ requests[r].pc = "end" /\ requests[r].aborted
        /\ Has(requests[r].log, "onMessage")
        /\ requests[q].pc = "end" /\ Has(requests[q].log, "onSuccess")

\* C29: for a request that was aborted before its stream had ended neither
\* onSuccess nor onError is called.
C29_AbortIsSilent ==
    \A r \in Requests :
        requests[r].aborted =>
            /\ ~Has(requests[r].log, "onSuccess")
            /\ ~Has(requests[r].log, "onError")

\* a request was aborted after its response had arrived, and has ended
C29_Witness ==
    \E r \in Requests :
        /\ requests[r].aborted
        /\ requests[r].pc = "end"
        /\ Has(requests[r].log, "onStart")
        /\ Has(requests[r].log, "onFinally")

\* an update of the upload of file f is applied in this step
UploadUpdate(f) ==
    /\ uploads[f].pc = "uploading"
    /\ uploads'[f] # uploads[f]

\* C30: a progress, success or error update of the upload of a file changes
\* the list entry of that file and no other entry, whatever was added to
\* or removed from the list since the upload began.
C30_UpdateHitsOwnEntry ==
    [][\A f \in Files :
          UploadUpdate(f) =>
             \E i \in DOMAIN fileItems :
                /\ fileItems[i].file = f
                /\ i \in DOMAIN fileItems'
                /\ fileItems'[i].file = f
                /\ fileItems'[i].progress = IF uploads'[f].pc = "success"
                                            THEN 100 ELSE uploads'[f].progress
                /\ fileItems'[i].status = uploads'[f].pc
                /\ \A j \in DOMAIN fileItems' :
                      (j # i /\ (j \notin DOMAIN fileItems
                                 \/ fileItems'[j] # fileItems[j])) =>
                         /\ fileItems'[j].file \in Files
                         /\ uploads[fileItems'[j].file].pc = "waiting"
                         /\ uploads'[fileItems'[j].file].pc = "uploading"]_vars
====
